---- MODULE Spec2Model ----
(***************************************************************************)
(* Model of the cosmetic ingredient checker (APP_Cosmeticos.py).           *)
(*                                                                         *)
(* Text is a sequence of one-character strings, so that case folding,      *)
(* trimming, substring containment and pattern search are computed the     *)
(* way the Python/pandas code computes them.  A table (DataFrame) is a     *)
(* record [columns, rows]: a sequence of labels and a sequence of rows,    *)
(* every row a sequence of cells as wide as the header.                    *)
(***************************************************************************)
EXTENDS Integers, Sequences, FiniteSets, TLC

----------------------------------------------------------------------------
(* Bounds *)

\* longest list of queries handed to one search call
MaxBatch == 2

----------------------------------------------------------------------------
(* Text helpers: str.lower, str.strip, "in", str() of a cell *)

UpperChars == <<"A","B","C","D","E","F","G","H","I","J","K","L","M",
                "N","O","P","Q","R","S","T","U","V","W","X","Y","Z">>
LowerChars == <<"a","b","c","d","e","f","g","h","i","j","k","l","m",
                "n","o","p","q","r","s","t","u","v","w","x","y","z">>

\* upper-case letter -> lower-case letter
LowerOf ==
    [c \in {UpperChars[i] : i \in 1..Len(UpperChars)} |->
        LowerChars[CHOOSE i \in 1..Len(UpperChars) : UpperChars[i] = c]]

LowerChar(c) == IF c \in DOMAIN LowerOf THEN LowerOf[c] ELSE c

\* str.lower()
Lower(s) == [i \in 1..Len(s) |-> LowerChar(s[i])]

IsSpace(c) == c = " "

\* str.strip(): drop leading and trailing whitespace
Strip(s) ==
    LET keep == {i \in 1..Len(s) : ~IsSpace(s[i])}
    IN  IF keep = {} THEN <<>>
        ELSE LET lo == CHOOSE i \in keep : \A j \in keep : i <= j
                 hi == CHOOSE i \in keep : \A j \in keep : j <= i
             IN  SubSeq(s, lo, hi)

\* Python's "sub in s": literal substring containment
Contains(s, sub) ==
    \E p \in 1..(Len(s) + 1) :
        /\ p + Len(sub) - 1 <= Len(s)
        /\ \A k \in 1..Len(sub) : s[p + k - 1] = sub[k]

\* an empty spreadsheet cell (float NaN in the DataFrame)
NaN == <<"NaN">>

s_nan == <<"n","a","n">>

\* str(value) of one cell, as row['CAS Number'] is rendered in the row loop
PyStr(cell) == IF cell = NaN THEN s_nan ELSE cell

----------------------------------------------------------------------------
(* Pattern search: Series.str.contains(pat, case=False, na=False) uses     *)
(* regex=True, so pat is compiled by Python's re with IGNORECASE.          *)
(* Modelled grammar: literal characters, "." (any character), the postfix  *)
(* quantifiers "+" and "*", and "(" which, there being no ")" in the       *)
(* alphabet, always opens an unterminated group.  A doubled quantifier is  *)
(* rejected as re.compile did up to Python 3.10; no query below has one.   *)

Quantifiers == {"+", "*"}

\* re.compile raises re.error: unterminated subpattern, nothing to repeat,
\* multiple repeat
ReError(pat) ==
    \E i \in 1..Len(pat) :
        \/ pat[i] = "("
        \/ /\ pat[i] \in Quantifiers
           /\ (i = 1 \/ pat[i - 1] \in Quantifiers)

\* one pattern atom against one subject character, IGNORECASE
AtomMatches(a, c) == a = "." \/ LowerChar(a) = LowerChar(c)

RECURSIVE ReMatchAt(_, _, _, _)
\* does pat[i..] match s starting at position p (a prefix match)
ReMatchAt(pat, i, s, p) ==
    IF i > Len(pat) THEN TRUE
    ELSE LET quant == IF i < Len(pat) /\ pat[i + 1] \in Quantifiers
                      THEN pat[i + 1] ELSE "1"
             run(k) == \A j \in 0..(k - 1) : AtomMatches(pat[i], s[p + j])
         IN  IF quant = "1"
             THEN /\ p <= Len(s)
                  /\ AtomMatches(pat[i], s[p])
                  /\ ReMatchAt(pat, i + 1, s, p + 1)
             ELSE \E k \in (IF quant = "+" THEN 1 ELSE 0)..(Len(s) - p + 1) :
                      /\ run(k)
                      /\ ReMatchAt(pat, i + 2, s, p + k)

\* re.search(pat, s, re.IGNORECASE) is not None, for a pattern that compiles
ReSearch(pat, s) == \E p \in 1..(Len(s) + 1) : ReMatchAt(pat, 1, s, p)

----------------------------------------------------------------------------
(* Texts used as column labels, cell values and queries *)

L_CAS_Number   == <<"C","A","S"," ","N","u","m","b","e","r">>
L_CAS_NumberSp == <<"C","A","S"," ","N","u","m","b","e","r"," ">>
L_Cas_Limpio   == <<"C","a","s"," ","l","i","m","p","i","o">>
L_Name         == <<"N","a","m","e">>
L_INCI_name    == <<"I","N","C","I"," ","n","a","m","e">>
L_Ingredient   == <<"I","n","g","r","e","d","i","e","n","t">>
L_Substance    == <<"S","u","b","s","t","a","n","c","e">>
L_EC           == <<"E","C">>
L_Unnamed_0    == <<"U","n","n","a","m","e","d",":"," ","0">>
L_Substance_Name == <<"S","u","b","s","t","a","n","c","e"," ","N","a","m","e">>

s_51_84_3 == <<"5","1","-","8","4","-","3">>
s_51843   == <<"5","1","8","4","3">>
s_cas     == <<"c","a","s">>
s_84_3    == <<"8","4","-","3">>
s_51x84   == <<"5","1",".","8","4">>
s_paren   == <<"(">>
s_64_17_5 == <<"6","4","-","1","7","-","5">>
s_two_cas == <<"6","4","-","1","7","-","5"," ","5","1","-","8","4","-","3">>
s_51843sp == <<" ","5","1","8","4","3">>

s_Aqua         == <<"A","q","u","a">>
s_aqua_sp      == <<"a","q","u","a"," ">>
s_AQUA         == <<"A","Q","U","A">>
s_Aqua_Extract == <<"A","q","u","a"," ","E","x","t","r","a","c","t">>
s_a_plus_b     == <<"a","+","b">>
s_AAB          == <<"A","A","B">>
s_A_plus_B_sp  == <<" ","A","+","B">>

----------------------------------------------------------------------------
(* Tables *)

\* pd.DataFrame()
EmptyDF == [columns |-> <<>>, rows |-> <<>>]

\* DataFrame.empty: some axis has length 0
IsEmptyDF(df) == Len(df.columns) = 0 \/ Len(df.rows) = 0

\* "label in df.columns"
HasColumn(df, label) == \E j \in 1..Len(df.columns) : df.columns[j] = label

\* position of the column df[label] selects
ColumnIndex(df, label) ==
    CHOOSE j \in 1..Len(df.columns) : df.columns[j] = label

\* df.columns = df.columns.str.strip()
StripColumns(df) ==
    [df EXCEPT !.columns = [j \in 1..Len(df.columns) |-> Strip(df.columns[j])]]

\* cas_db.rename(columns={"INCI name": "Ingredient"}, inplace=True)
RenameInci(df) ==
    [df EXCEPT !.columns =
        [j \in 1..Len(df.columns) |->
            IF df.columns[j] = L_INCI_name THEN L_Ingredient
            ELSE df.columns[j]]]

\* a spreadsheet file on disk: what pd.read_excel(path, skiprows, header=0)
\* yields, or a file that cannot be read (read_excel raises); "above" is
\* the last of the rows skiprows leaves out, the row over the header row
\* (<<>> when it is blank)
Unreadable == [readable |-> FALSE, table |-> EmptyDF, above |-> <<>>]
Sheet(cols, rows) ==
    [readable |-> TRUE, table |-> [columns |-> cols, rows |-> rows], above |-> <<>>]
SheetUnder(above, cols, rows) ==
    [readable |-> TRUE, table |-> [columns |-> cols, rows |-> rows], above |-> above]

AnnexNames == <<"Annex II", "Annex III", "Annex IV", "Annex V", "Annex VI",
                "MERCOSUR Prohibidas">>
LoopAnnexes == {"Annex III", "Annex IV", "Annex V", "Annex VI"}
FileNames == {AnnexNames[i] : i \in 1..Len(AnnexNames)} \cup {"Base CAS"}

\* files the Annex II path may hold
AnnexIIFiles ==
    { Unreadable,
      Sheet(<<L_CAS_NumberSp, L_Name>>,
            << <<s_64_17_5, s_Aqua>>, <<s_two_cas, s_AQUA>>, <<NaN, s_AAB>> >>),
      Sheet(<<L_Name, L_CAS_Number, L_Cas_Limpio>>,
            << <<s_Aqua, s_64_17_5, s_51_84_3>>, <<s_AAB, s_two_cas, s_64_17_5>> >>),
      Sheet(<<L_CAS_Number>>, << <<s_64_17_5>>, <<s_51843sp>> >>),
      Sheet(<<L_EC, L_Name>>, << <<s_51_84_3, s_Aqua>> >>),
      \* a blank header cell, which read_excel labels "Unnamed: 0"
      SheetUnder(<<L_Substance_Name, L_CAS_Number>>,
                 <<L_Unnamed_0, L_CAS_NumberSp>>, << <<s_Aqua, s_64_17_5>> >>) }

\* files the Annex III..VI paths may hold
LoopAnnexFiles ==
    { Unreadable,
      Sheet(<<L_CAS_Number>>, << <<s_51_84_3>> >>) }

\* files the MERCOSUR path may hold
MercosurFiles ==
    { Unreadable,
      Sheet(<<L_Name, L_Cas_Limpio>>,
            << <<s_Aqua, s_51_84_3>>, <<s_AAB, NaN>>, <<s_AQUA, s_two_cas>> >>),
      Sheet(<<L_CAS_Number>>, << <<s_64_17_5>> >>) }

\* files the ingredient inventory path may hold
CasDbFiles ==
    { Unreadable,
      Sheet(<<L_INCI_name, L_CAS_Number>>,
            << <<s_Aqua_Extract, s_64_17_5>>, <<s_A_plus_B_sp, s_51_84_3>>,
               <<NaN, s_51843>> >>),
      Sheet(<<L_CAS_Number, L_Name>>,
            << <<s_64_17_5, s_AQUA>>, <<s_51_84_3, s_aqua_sp>>,
               <<s_51843, s_AAB>> >>),
      Sheet(<<L_Substance, L_CAS_Number>>, << <<s_Aqua, s_64_17_5>> >>) }

\* queries a user may type into the CAS box
CasQueries == {s_51_84_3, s_84_3, s_51x84, s_paren, s_nan}

\* queries a user may type into the ingredient box
NameQueries == {s_Aqua, s_a_plus_b, s_paren, s_nan}

\* all lists of at most n elements of S
RECURSIVE Lists(_, _)
Lists(S, n) ==
    IF n = 0 THEN {<<>>}
    ELSE LET shorter == Lists(S, n - 1)
         IN  shorter \cup {Append(l, x) : l \in {m \in shorter : Len(m) = n - 1}, x \in S}

----------------------------------------------------------------------------
(* load_data *)

\* one "try: read_excel; strip" block whose result is bound to a local
LoadStripped(file) ==
    IF file.readable THEN StripColumns(file.table) ELSE EmptyDF

\* the loop over Annex III..VI: the table read is stored with
\* locals()[var] = df, which does not rebind the function's local variable,
\* so the local keeps the pd.DataFrame() of the first line
LoadLoopAnnex(file) == EmptyDF

\* the inventory block: strip, then rename "INCI name"
LoadCasDb(file) ==
    IF file.readable THEN RenameInci(StripColumns(file.table)) ELSE EmptyDF

\* info_carga: for every source whether its read succeeded, and the row count
LoadInfo(files) ==
    [n \in FileNames |->
        [ok |-> files[n].readable,
         filas |-> IF files[n].readable THEN Len(files[n].table.rows) ELSE 0]]

load_data(files) ==
    [annex_data |->
        [n \in (FileNames \ {"Base CAS"}) |->
            IF n \in LoopAnnexes THEN LoadLoopAnnex(files[n])
            ELSE LoadStripped(files[n])],
     cas_db |-> LoadCasDb(files["Base CAS"]),
     info_carga |-> LoadInfo(files)]

----------------------------------------------------------------------------
(* Program state *)

VARIABLES
    disk,         \* the spreadsheet files load_data reads, by source name
    nan_as_text,  \* TRUE: astype(str) renders an empty cell as "nan"
                  \* (pandas before 3.0); FALSE: it stays missing (pandas 3)
    annex_data,   \* source name -> table, in the order of AnnexNames
    cas_db,       \* the ingredient inventory
    info_carga,   \* load report
    call,         \* the search call made last
    ret,          \* what that call returned
    \* buscar_lista_en_pubchem and the lookup it is running
    input_list,   \* the batch being resolved (lista)
    por_cas,      \* TRUE: CAS lookups, FALSE: name lookups
    idx,          \* position in lista of the current element (enumerate's i + 1)
    pc,           \* where the batch blocks: "idle", "sleep", "cids",
                  \* "properties", "synonyms", "done"
    cid,          \* the CID step 1 obtained for the current element
    properties,   \* the property record step 2 obtained for the current element
    in_flight,    \* requests sent to PubChem and not completed
    resultados_pubchem,  \* the mapping element -> result built by the batch
    trace,        \* observed: sleeps, requests and responses in order
    respuestas,   \* observed: per position, the responses its lookup received
    resultado_de, \* observed: per position, the result its lookup returned
    \* main() of scripts/check_annexes.py and the files it works on
    state_file,   \* annexes_state.json
    state,        \* the mapping load_state() returned to this cycle
    new_state,    \* the mapping this cycle builds
    to_commit,    \* the files this cycle will publish
    workdir,      \* the temp_annex_* files in the working directory
    copied,       \* observed: what this cycle wrote into OUTPUT_DIR, by path
    remote,       \* what the site serves for each annex during this cycle
    annex_k,      \* position in ANNEX_PAGES of the annex handled next
    tpc,          \* "idle", "loop", "save", "publish", "ended", or "crashed"
                  \* when an exception left main
    push,         \* what commit_and_push did in this cycle
    log,          \* observed: the state-file operations and the sources
                  \* processed in this cycle, in order
    unpublished   \* observed: source -> marker, for the sources the last
                  \* finished cycle found changed and did not publish

app_vars == <<disk, nan_as_text, annex_data, cas_db, info_carga, call, ret>>
pubchem_vars == <<input_list, por_cas, idx, pc, cid, properties, in_flight,
                  resultados_pubchem, trace, respuestas, resultado_de>>

tracker_vars == <<state_file, state, new_state, to_commit, workdir, copied,
                  remote, annex_k, tpc, push, log, unpublished>>

vars == <<app_vars, pubchem_vars, tracker_vars>>

\* a Python dict without keys; also the empty list
EmptyDict == <<>>

\* no PubChem batch has been started
PubChemIdle ==
    /\ input_list = <<>>
    /\ por_cas = TRUE
    /\ idx = 0
    /\ pc = "idle"
    /\ cid = 0
    /\ properties = EmptyDict
    /\ in_flight = {}
    /\ resultados_pubchem = EmptyDict
    /\ trace = <<>>
    /\ respuestas = <<>>
    /\ resultado_de = <<>>

\* annexes_state.json: absent; present and open() raises (no permission, a
\* directory); bytes that are not UTF-8; text that is not JSON; a JSON
\* document
NoFile ==
    [exists |-> FALSE, opens |-> FALSE, utf8 |-> FALSE, json |-> FALSE,
     object |-> EmptyDict]
LockedFile ==
    [exists |-> TRUE, opens |-> FALSE, utf8 |-> FALSE, json |-> FALSE,
     object |-> EmptyDict]
BinaryFile ==
    [exists |-> TRUE, opens |-> TRUE, utf8 |-> FALSE, json |-> FALSE,
     object |-> EmptyDict]
CorruptFile ==
    [exists |-> TRUE, opens |-> TRUE, utf8 |-> TRUE, json |-> FALSE,
     object |-> EmptyDict]
JsonFile(obj) ==
    [exists |-> TRUE, opens |-> TRUE, utf8 |-> TRUE, json |-> TRUE,
     object |-> obj]

\* a JSON document that is an array, as json.load returns it: a list
JsonArray(items) == [array |-> items]

\* the value is a dict
IsDict(v) == "array" \notin DOMAIN v

\* commit_and_push has not been called
NoPush == [called |-> FALSE, token |-> FALSE, raised |-> FALSE, files |-> <<>>]

\* no freshness cycle has run; the state file is as given
TrackerAt(file) ==
    /\ state_file = file
    /\ state = EmptyDict
    /\ new_state = EmptyDict
    /\ to_commit = <<>>
    /\ workdir = {}
    /\ copied = EmptyDict
    /\ remote = EmptyDict
    /\ annex_k = 0
    /\ tpc = "idle"
    /\ push = NoPush
    /\ log = <<>>
    /\ unpublished = EmptyDict

TrackerIdle == TrackerAt(NoFile)

annex_ii == annex_data["Annex II"]

----------------------------------------------------------------------------
(* Column helpers shared by the searches *)

\* Series.astype(str) on one cell
AsTypeStr(cell) ==
    IF cell = NaN THEN (IF nan_as_text THEN s_nan ELSE NaN) ELSE cell

\* one element of df[col].astype(str).str.contains(pat, case=False, na=False),
\* for a pattern that compiles
StrContains(cell, pat) ==
    LET v == AsTypeStr(cell)
    IN  IF v = NaN THEN FALSE ELSE ReSearch(pat, v)

\* index labels of df, in order
RowIndex(df) == [i \in 1..Len(df.rows) |-> i]

\* df[df[col].astype(str).str.contains(pat, ...)]: the index labels kept
ContainsRows(df, j, pat) ==
    SelectSeq(RowIndex(df), LAMBDA i : StrContains(df.rows[i][j], pat))

\* [col for col in df_annex.columns if 'cas' in col.lower()], as positions
CasColumns(df) ==
    SelectSeq([j \in 1..Len(df.columns) |-> j],
              LAMBDA j : Contains(Lower(df.columns[j]), s_cas))

----------------------------------------------------------------------------
(* buscar_cas_en_restricciones *)

NotFoundCas == [raised |-> FALSE, encontrado |-> FALSE, anexos |-> <<>>]
RaisedCas   == [raised |-> TRUE, encontrado |-> FALSE, anexos |-> <<>>]
FoundCas(nombre, data) ==
    [raised |-> FALSE, encontrado |-> TRUE,
     anexos |-> << [nombre |-> nombre, data |-> data] >>]

\* the test of the row-by-row loop of the "51-84-3" case
RowLoopHit(cell, cas_number) ==
    LET cas_valor == Strip(PyStr(cell))
    IN  \/ Contains(cas_valor, cas_number)
        \/ cas_valor = s_51843
        \/ Contains(cas_valor, s_51_84_3)

RECURSIVE ScanColumns(_, _, _, _)
\* the loop over cas_columns: the rows of the first column with a match
ScanColumns(df, cols, c, cas_number) ==
    IF c > Len(cols) THEN <<>>
    ELSE LET matches == ContainsRows(df, cols[c], cas_number)
         IN  IF matches # <<>> THEN matches
             ELSE ScanColumns(df, cols, c + 1, cas_number)

RECURSIVE ScanAnnexes(_, _)
\* the loop over annex_data.items(), from the k-th source on
ScanAnnexes(cas_number, k) ==
    IF k > Len(AnnexNames) THEN NotFoundCas
    ELSE LET nombre_annex == AnnexNames[k]
             df_annex == annex_data[nombre_annex]
             cas_columns == CasColumns(df_annex)
         IN  IF IsEmptyDF(df_annex) \/ cas_columns = <<>>
             THEN ScanAnnexes(cas_number, k + 1)
             ELSE IF ReError(cas_number) THEN RaisedCas
             ELSE LET matches == ScanColumns(df_annex, cas_columns, 1, cas_number)
                  IN  IF matches # <<>>
                      \* encontrado_en_alguno: break out of the source loop
                      THEN FoundCas(nombre_annex, matches)
                      ELSE ScanAnnexes(cas_number, k + 1)

\* the body of the loop over cas_list, for one cas_number
SearchOneCas(cas_number) ==
    IF cas_number = s_51_84_3 /\ HasColumn(annex_ii, L_CAS_Number)
    THEN LET j == ColumnIndex(annex_ii, L_CAS_Number)
             matches == ContainsRows(annex_ii, j, cas_number)
             hits == SelectSeq(RowIndex(annex_ii),
                         LAMBDA i : RowLoopHit(annex_ii.rows[i][j], cas_number))
         IN  IF matches # <<>> THEN FoundCas("Annex II", matches)
             ELSE IF hits # <<>> THEN FoundCas("Annex II", <<Head(hits)>>)
             ELSE ScanAnnexes(cas_number, 1)
    ELSE ScanAnnexes(cas_number, 1)

Range(seq) == {seq[i] : i \in 1..Len(seq)}

\* the whole call: an exception in one iteration leaves the function
buscar_cas_en_restricciones(cas_list) ==
    IF \E i \in 1..Len(cas_list) : SearchOneCas(cas_list[i]).raised
    THEN [raised |-> TRUE, st_error |-> 0, resultados |-> <<>>, frames |-> <<>>]
    ELSE [raised |-> FALSE, st_error |-> 0,
          resultados |->
              [c \in Range(cas_list) |->
                  LET r == SearchOneCas(c)
                  IN  [encontrado |-> r.encontrado, anexos |-> r.anexos]],
          frames |-> <<>>]

----------------------------------------------------------------------------
(* buscar_ingredientes_por_nombre *)

NoColumn == <<>>

\* columna_nombre: "Ingredient", else "Name", else None
columna_nombre ==
    IF HasColumn(cas_db, L_Ingredient) THEN L_Ingredient
    ELSE IF HasColumn(cas_db, L_Name) THEN L_Name
    ELSE NoColumn

\* one element of the exact mask:
\* cas_db[col].astype(str).str.lower().str.strip() == ing.lower().strip()
ExactMask(cell, ing) ==
    LET v == AsTypeStr(cell)
    IN  IF v = NaN THEN FALSE ELSE Strip(Lower(v)) = Strip(Lower(ing))

\* cas_db[mask] in either mode: the index labels kept
MaskRows(ing, exact) ==
    LET j == ColumnIndex(cas_db, columna_nombre)
    IN  SelectSeq(RowIndex(cas_db),
                  LAMBDA i : IF exact THEN ExactMask(cas_db.rows[i][j], ing)
                             ELSE StrContains(cas_db.rows[i][j], ing))

\* df_ing with the "Búsqueda" column added: one record per matched row
MatchedFrame(ing, rows) ==
    LET j == ColumnIndex(cas_db, columna_nombre)
    IN  [k \in 1..Len(rows) |->
            [Busqueda |-> ing, Resultado |-> "", fila |-> rows[k],
             nombre |-> cas_db.rows[rows[k]][j]]]

\* df_not_found: {"Búsqueda": ing, columna_nombre: ing, "Resultado": "No encontrado"}
NotFoundFrame(ing) ==
    << [Busqueda |-> ing, Resultado |-> "No encontrado", fila |-> 0,
        nombre |-> ing] >>

\* the frame one iteration of the loop appends to resultados_formula
FrameFor(ing, exact) ==
    LET df_ing == MaskRows(ing, exact)
    IN  IF df_ing = <<>> THEN NotFoundFrame(ing)
        ELSE MatchedFrame(ing, df_ing)

\* the fuzzy mask compiles ing as a pattern
IngRaises(ing, exact) == ~exact /\ ReError(ing)

RECURSIVE Concat(_)
\* pd.concat(resultados_formula, ignore_index=True)
Concat(frames) ==
    IF frames = <<>> THEN <<>> ELSE Head(frames) \o Concat(Tail(frames))

\* a resolver that reports the missing name column once per query and still
\* emits a not-found record for each
buscar_ingredientes_por_nombre_PerQuery(ingredientes, exact) ==
    IF columna_nombre = NoColumn
    THEN [raised |-> FALSE, st_error |-> Len(ingredientes), resultados |-> <<>>,
          frames |-> [i \in 1..Len(ingredientes) |-> NotFoundFrame(ingredientes[i])]]
    ELSE IF \E i \in 1..Len(ingredientes) : IngRaises(ingredientes[i], exact)
    THEN [raised |-> TRUE, st_error |-> 0, resultados |-> <<>>, frames |-> <<>>]
    ELSE [raised |-> FALSE, st_error |-> 0, resultados |-> <<>>,
          frames |-> [i \in 1..Len(ingredientes) |-> FrameFor(ingredientes[i], exact)]]

buscar_ingredientes_por_nombre(ingredientes, exact) ==
    IF columna_nombre = NoColumn
    THEN [raised |-> FALSE, st_error |-> 1, resultados |-> <<>>, frames |-> <<>>]
    ELSE IF \E i \in 1..Len(ingredientes) : IngRaises(ingredientes[i], exact)
    THEN [raised |-> TRUE, st_error |-> 0, resultados |-> <<>>, frames |-> <<>>]
    ELSE [raised |-> FALSE, st_error |-> 0, resultados |-> <<>>,
          frames |-> [i \in 1..Len(ingredientes) |-> FrameFor(ingredientes[i], exact)]]

\* the DataFrame a call returns
ReturnedFrame(r) == Concat(r.frames)

----------------------------------------------------------------------------
(* buscar_ingredientes_en_anexos *)

\* the sources the loop does not skip: not empty, with a "Name" column
HasNames(n) == ~IsEmptyDF(annex_data[n]) /\ HasColumn(annex_data[n], L_Name)

\* df_annex[df_annex["Name"].astype(str).str.contains(ing, ...)]
NameRows(n, ing) ==
    ContainsRows(annex_data[n], ColumnIndex(annex_data[n], L_Name), ing)

\* resultados_annex: for every ingredient with rows, in order, its rows
\* with the "Búsqueda" column
AnnexFrame(n, ingredientes) ==
    Concat([i \in 1..Len(ingredientes) |->
               LET res == NameRows(n, ingredientes[i])
               IN  [k \in 1..Len(res) |->
                       [Busqueda |-> ingredientes[i], fila |-> res[k]]]])

buscar_ingredientes_en_anexos(ingredientes) ==
    IF /\ \E n \in DOMAIN annex_data : HasNames(n)
       /\ \E i \in 1..Len(ingredientes) : ReError(ingredientes[i])
    THEN [raised |-> TRUE, st_error |-> 0, resultados |-> <<>>, frames |-> <<>>]
    ELSE [raised |-> FALSE, st_error |-> 0,
          resultados |->
              [n \in {x \in DOMAIN annex_data :
                         HasNames(x) /\ AnnexFrame(x, ingredientes) # <<>>}
                  |-> AnnexFrame(n, ingredientes)],
          frames |-> <<>>]

----------------------------------------------------------------------------
(* What the searches leave of the tables they select from *)

L_Busqueda == <<"B","ú","s","q","u","e","d","a">>

\* df[label] = value
AssignColumn(df, label, value) ==
    [columns |-> Append(df.columns, label),
     rows |-> [i \in 1..Len(df.rows) |-> Append(df.rows[i], value)]]

\* "df_ing = df_ing.copy(); df_ing["Búsqueda"] = ing" on a selection of df:
\* the column goes to the copy, df is as it was
AfterTagging_Shared(df, ing) == AssignColumn(df, L_Busqueda, ing)
AfterTagging(df, ing) == df

\* cas_db after the call of buscar_ingredientes_por_nombre that returned r:
\* rows were tagged for the ingredients that matched
CasDbAfter(ingredientes, r) ==
    LET tagged == {i \in 1..Len(r.frames) : r.frames[i] # NotFoundFrame(ingredientes[i])}
    IN  IF tagged = {} THEN cas_db
        ELSE AfterTagging(cas_db, ingredientes[CHOOSE i \in tagged : \A j \in tagged : i <= j])

\* a table of annex_data after the call of buscar_ingredientes_en_anexos
\* that returned r
AnnexAfter(n, r) ==
    IF n \in DOMAIN r.resultados
    THEN AfterTagging(annex_data[n], r.resultados[n][1].Busqueda)
    ELSE annex_data[n]

----------------------------------------------------------------------------
(* The state machine *)

NoCall == [fn |-> "none", lista |-> <<>>, exact |-> FALSE]
NoRet  == [raised |-> FALSE, st_error |-> 0, resultados |-> <<>>, frames |-> <<>>]

\* which of the Annex III..VI files are readable: none, or all of them
LoopAnnexDisks ==
    {f \in [LoopAnnexes -> LoopAnnexFiles] :
        Cardinality({n \in LoopAnnexes : f[n].readable}) \in {0, 4}}

\* the files found on disk when the script starts
Disks ==
    {[n \in FileNames |->
        IF n = "Annex II" THEN a2
        ELSE IF n = "MERCOSUR Prohibidas" THEN me
        ELSE IF n = "Base CAS" THEN db
        ELSE lo[n]] :
     a2 \in AnnexIIFiles, me \in MercosurFiles, db \in CasDbFiles,
     lo \in LoopAnnexDisks}

\* the script has run load_data() and built annex_data; no button handled yet
Init ==
    /\ disk \in Disks
    /\ nan_as_text \in BOOLEAN
    /\ annex_data = load_data(disk).annex_data
    /\ cas_db = load_data(disk).cas_db
    /\ info_carga = load_data(disk).info_carga
    /\ call = NoCall
    /\ ret = NoRet
    /\ PubChemIdle
    /\ TrackerIdle

\* a script run handles "Buscar CAS en restricciones": the tables are only read
BuscarCas ==
    /\ call = NoCall
    /\ \E cas_list \in Lists(CasQueries, MaxBatch) :
        /\ call' = [fn |-> "cas", lista |-> cas_list, exact |-> FALSE]
        /\ ret' = buscar_cas_en_restricciones(cas_list)
    /\ UNCHANGED <<disk, nan_as_text, annex_data, cas_db, info_carga>>
    /\ UNCHANGED <<pubchem_vars, tracker_vars>>

\* a script run handles "Buscar Fórmula", exact or approximate
BuscarNombres ==
    /\ call = NoCall
    /\ \E ingredientes \in Lists(NameQueries, MaxBatch), exact \in BOOLEAN :
        LET r == buscar_ingredientes_por_nombre(ingredientes, exact)
        IN  /\ call' = [fn |-> "nombre", lista |-> ingredientes, exact |-> exact]
            /\ ret' = r
            /\ cas_db' = CasDbAfter(ingredientes, r)
    /\ UNCHANGED <<disk, nan_as_text, annex_data, info_carga>>
    /\ UNCHANGED <<pubchem_vars, tracker_vars>>

\* ingredients looked up in the "Name" columns of the annexes
AnnexNameQueries == {s_Aqua, s_paren}

\* buscar_ingredientes_en_anexos is called with a list of ingredients
BuscarEnAnexos ==
    /\ call = NoCall
    /\ \E ingredientes \in Lists(AnnexNameQueries, MaxBatch) :
        LET r == buscar_ingredientes_en_anexos(ingredientes)
        IN  /\ call' = [fn |-> "anexos", lista |-> ingredientes, exact |-> FALSE]
            /\ ret' = r
            /\ annex_data' = [n \in DOMAIN annex_data |-> AnnexAfter(n, r)]
    /\ UNCHANGED <<disk, nan_as_text, cas_db, info_carga>>
    /\ UNCHANGED <<pubchem_vars, tracker_vars>>

\* the next interaction reruns the script: load_data is cached, the locals
\* of the previous run are gone
Rerun ==
    /\ call # NoCall
    /\ call' = NoCall
    /\ ret' = NoRet
    /\ UNCHANGED <<disk, nan_as_text, annex_data, cas_db, info_carga>>
    /\ UNCHANGED <<pubchem_vars, tracker_vars>>

Next == BuscarCas \/ BuscarNombres \/ BuscarEnAnexos \/ Rerun

Spec == Init /\ [][Next]_vars

----------------------------------------------------------------------------
(* Vocabulary of the claims *)

CasCallReturned == call.fn = "cas" /\ ~ret.raised
NameCall == call.fn = "nombre"

\* the text of a cell contains the query as a literal substring, case-folded
LiteralMatch(cell, q) ==
    cell # NaN /\ Contains(Lower(cell), Lower(q))

\* some CAS-candidate column of source n holds the string cas
SourceHoldsCas(n, cas) ==
    LET df == annex_data[n]
    IN  \E j \in Range(CasColumns(df)) : \E i \in 1..Len(df.rows) :
            LiteralMatch(df.rows[i][j], cas)

\* the sources holding cas, in the priority order of annex_data
Holders(cas) == SelectSeq(AnnexNames, LAMBDA n : SourceHoldsCas(n, cas))

\* the source names of one result, in list order
EntryNames(res) == [k \in 1..Len(res.anexos) |-> res.anexos[k].nombre]

\* C1: a CAS string held by several sources gets one entry per such source,
\* in priority order (the search goes on after a match).
C1_EverySourceListed ==
    CasCallReturned =>
        \A c \in DOMAIN ret.resultados :
            Len(Holders(c)) >= 2 => EntryNames(ret.resultados[c]) = Holders(c)

\* C2: encontrado holds exactly when anexos is non-empty, every entry has
\* rows, and when a single source, not the first, holds the CAS the result is
\* exactly one entry naming that source.
C2_FoundIffListed ==
    CasCallReturned =>
        \A c \in DOMAIN ret.resultados :
            LET r == ret.resultados[c]
            IN  /\ r.encontrado <=> (r.anexos # <<>>)
                /\ \A k \in 1..Len(r.anexos) : r.anexos[k].data # <<>>
                /\ (Len(Holders(c)) = 1 /\ Holders(c)[1] # AnnexNames[1])
                       => (r.encontrado /\ EntryNames(r) = Holders(c))

\* C3: an entry holds all matching rows of the first CAS-candidate column,
\* in header order, that has a matching row; no source is listed twice.
C3_FirstColumnOnly ==
    CasCallReturned =>
        \A c \in DOMAIN ret.resultados :
            LET r == ret.resultados[c]
            IN  /\ \A k \in 1..Len(r.anexos) :
                       LET df == annex_data[r.anexos[k].nombre]
                           cols == CasColumns(df)
                           hit(m) == ContainsRows(df, cols[m], c) # <<>>
                       IN  \E m \in 1..Len(cols) :
                               /\ hit(m)
                               /\ \A m2 \in 1..(m - 1) : ~hit(m2)
                               /\ r.anexos[k].data = ContainsRows(df, cols[m], c)
                /\ \A k1, k2 \in 1..Len(r.anexos) :
                       r.anexos[k1].nombre = r.anexos[k2].nombre => k1 = k2

\* C4: for every query of a cross-annex search and every cell of a
\* CAS-candidate column, the match test is defined and is literal
\* case-folded containment.
C4_LiteralSubstring ==
    call.fn = "cas" =>
        \A c \in Range(call.lista) : \A n \in DOMAIN annex_data :
            LET df == annex_data[n]
            IN  \A j \in Range(CasColumns(df)) : \A i \in 1..Len(df.rows) :
                    /\ ~ReError(c)
                    /\ StrContains(df.rows[i][j], c) <=> LiteralMatch(df.rows[i][j], c)

\* C5: no query makes a search call fail: both searches return normally.
C5_NoQueryAbortsBatch ==
    call.fn \in {"cas", "nombre"} => ~ret.raised

\* the records of the returned frame that belong to query q
RecordsOf(q) == SelectSeq(ReturnedFrame(ret), LAMBDA rec : rec.Busqueda = q)
NotFoundOf(q) == SelectSeq(RecordsOf(q), LAMBDA rec : rec.Resultado = "No encontrado")
Occurrences(lista, q) == Cardinality({i \in 1..Len(lista) : lista[i] = q})

\* C6: with a name column, in both modes, every query has a record; a query
\* without matched rows has one "No encontrado" record per occurrence, and
\* no query has both kinds of record.
C6_OnePresencePerQuery ==
    (NameCall /\ columna_nombre # NoColumn) =>
        \A q \in Range(call.lista) :
            /\ RecordsOf(q) # <<>>
            /\ \/ NotFoundOf(q) = <<>>
               \/ /\ NotFoundOf(q) = RecordsOf(q)
                  /\ Len(NotFoundOf(q)) = Occurrences(call.lista, q)

\* the registry has neither an "Ingredient" nor a "Name" column
NoNameColumn == ~HasColumn(cas_db, L_Ingredient) /\ ~HasColumn(cas_db, L_Name)

\* C7: the resolver returns as many results as there are queries, for every
\* batch and in both modes (stated here for the registries that have a name
\* column; without one the batch fails as a whole, see C10).
C7_OneResultPerQuery ==
    (NameCall /\ ~NoNameColumn) => Len(ret.frames) = Len(call.lista)

\* the registry rows a result frame holds
MatchedRows(frame) ==
    {frame[k].fila : k \in {x \in 1..Len(frame) : frame[x].Resultado # "No encontrado"}}

\* C8: whatever Exact mode matches, Fuzzy mode on the same registry and
\* batch matches as well.
C8_ExactSubsetOfFuzzy ==
    (NameCall /\ call.exact /\ ~ret.raised /\ ret.st_error = 0) =>
        \A i \in 1..Len(call.lista) :
            LET fuzzy == buscar_ingredientes_por_nombre(<<call.lista[i]>>, FALSE)
            IN  \A row \in MatchedRows(ret.frames[i]) :
                    /\ ~fuzzy.raised
                    /\ row \in MatchedRows(fuzzy.frames[1])

\* the name cell of registry row i
NameCell(i) == cas_db.rows[i][ColumnIndex(cas_db, columna_nombre)]

\* the value of a name cell equals the query, both lower-cased and trimmed
EqualsFolded(cell, q) ==
    cell # NaN /\ Strip(Lower(cell)) = Strip(Lower(q))

\* C9: in Exact mode a row is matched iff its name, lower-cased and trimmed,
\* equals the lower-cased trimmed query; without such a row the query gets a
\* single not-found record.
C9_ExactIsEquality ==
    (NameCall /\ call.exact /\ ret.st_error = 0) =>
        /\ ~ret.raised
        /\ \A i \in 1..Len(call.lista) :
               LET eq == {x \in 1..Len(cas_db.rows) : EqualsFolded(NameCell(x), call.lista[i])}
               IN  /\ MatchedRows(ret.frames[i]) = eq
                   /\ eq = {} => ret.frames[i] = NotFoundFrame(call.lista[i])

----------------------------------------------------------------------------
(* The PubChem client: buscar_cas_en_pubchem, buscar_ingrediente_en_pubchem
   and buscar_lista_en_pubchem *)

MaxLista == 2      \* longest batch sent to PubChem

\* Python's None, as a value no text equals
None == <<"None">>

\* dict.get(k, default)
Get(d, k, default) == IF k \in DOMAIN d THEN d[k] ELSE default

\* the smallest and the largest element of a non-empty set of integers
Min(S) == CHOOSE x \in S : \A y \in S : x <= y
Max(S) == CHOOSE x \in S : \A y \in S : y <= x

\* what one requests.get can come back with: an exception, or a response
\* with a status code whose body is JSON (json_ok) or makes json() raise
Fault == [Fault |-> "PUGREST"]
Raises(e) ==
    [raises |-> TRUE, exc |-> e, status_code |-> 0, json_ok |-> FALSE, data |-> Fault]
Http(status, ok, data) ==
    [raises |-> FALSE, exc |-> "", status_code |-> status, json_ok |-> ok, data |-> data]

\* the keyword argument timeout= of the three requests.get calls: none
NoTimeout == 0
RequestTimeout(step) == NoTimeout

\* what a request in flight can be completed with: the answer of the
\* service, or, when the service stays silent, the timeout of the call if
\* the call has one
Answers(c, pool) ==
    IF c.silent
    THEN IF c.timeout = NoTimeout THEN {} ELSE {Raises("ReadTimeout")}
    ELSE pool

\* synonyms as PubChem lists them
syn_ethanol == <<"e", "t", "h", "a", "n", "o", "l">>
syn_alcohol == <<"a", "l", "c", "o", "h", "o", "l">>
syn_CAS_64_17_5 == <<"C", "A", "S", "-", "6", "4", "-", "1", "7", "-", "5">>
syn_50_00_0 == <<"5", "0", "-", "0", "0", "-", "0">>
syn_CAS_sp_1_22_3 == <<"C", "A", "S", " ", "-", "1", "-", "2", "2", "-", "3", "x">>
syn_long == <<"1", "2", "3", "4", "5", "6", "7", "8", "9", "-", "1", "2", "-", "3", "4">>
syn_E1510 == <<"E", "1", "5", "1", "0", "-", "1">>

\* n copies of x
Rep(x, n) == [k \in 1..n |-> x]

\* Synonym lists the synonyms endpoint may return
SynonymLists ==
    { <<syn_ethanol, syn_CAS_64_17_5, syn_50_00_0>>,
      <<syn_E1510, syn_alcohol>>,
      Rep(syn_ethanol, 10) \o <<syn_50_00_0>>,
      Rep(syn_alcohol, 9) \o <<syn_long, syn_CAS_sp_1_22_3, syn_50_00_0>> }

\* answers of the name -> cids endpoint
CidsResponses ==
    { Raises("ConnectionError"),
      Http(404, TRUE, Fault),
      Http(200, FALSE, Fault),
      Http(200, TRUE, Fault),
      Http(200, TRUE, [IdentifierList |-> [CID |-> <<>>]]),
      Http(200, TRUE, [IdentifierList |-> [CID |-> <<702, 962>>]]) }

\* a property record; the service may leave requested properties out
SomeProperties ==
    [CID |-> 702, MolecularFormula |-> "C2H6O", MolecularWeight |-> "46.07",
     IUPACName |-> "ethanol", InChIKey |-> "LFQSCWFLJHTTHZ-UHFFFAOYSA-N"]

\* answers of the cid -> property endpoint
PropertiesResponses ==
    { Raises("ConnectionError"),
      Http(503, TRUE, Fault),
      Http(200, FALSE, Fault),
      Http(200, TRUE, Fault),
      Http(200, TRUE, [PropertyTable |-> [Properties |-> <<>>]]),
      Http(200, TRUE, [PropertyTable |-> [Properties |-> <<SomeProperties>>]]) }

\* answers of the cid -> synonyms endpoint
SynonymsResponses ==
    { Raises("ConnectionError"),
      Http(503, TRUE, Fault),
      Http(200, FALSE, Fault),
      Http(200, TRUE, Fault),
      Http(200, TRUE, [InformationList |-> [Information |-> <<>>]]),
      Http(200, TRUE, [InformationList |-> [Information |-> <<[CID |-> 702]>>]]) }
    \cup
    { Http(200, TRUE, [InformationList |->
                          [Information |-> <<[CID |-> 702, Synonym |-> l]>>]]) :
        l \in SynonymLists }

\* the page of a compound
CompoundUrl(c) == <<"https://pubchem.ncbi.nlm.nih.gov/compound/", c>>

\* the f-string messages of a not-found result
MensajeCas(texto) == [texto |-> texto]
MensajeNombre(texto, nombre) == [texto |-> texto, arg |-> nombre]

\* a result dict gets the key 'input' in the name lookup only
WithInput(cas, elemento, d) ==
    IF cas THEN d ELSE ("input" :> elemento) @@ d

\* the except Exception handler of both lookups
ExceptResult(cas, elemento, e) ==
    WithInput(cas, elemento,
        [encontrado |-> FALSE,
         error |-> e,
         mensaje |-> IF cas THEN MensajeCas("Error al conectar con PubChem")
                     ELSE MensajeNombre("Error al conectar con PubChem para '{}'",
                                        elemento)])

\* the lookup ends with a result, or goes on to its next request
Return(r) == [done |-> TRUE, resultado |-> r, cid |-> 0, properties |-> EmptyDict]
GoOn(c, props) == [done |-> FALSE, resultado |-> EmptyDict, cid |-> c, properties |-> props]

\* step 1 of a lookup, from the answer of the cids request on
OnCids(cas, elemento, resp) ==
    IF resp.raises THEN Return(ExceptResult(cas, elemento, resp.exc))
    ELSE IF resp.status_code # 200 THEN
        Return(WithInput(cas, elemento,
            [encontrado |-> FALSE,
             error |-> "Error en la búsqueda: Código " \o ToString(resp.status_code),
             mensaje |-> IF cas THEN MensajeCas("No se encontró el CAS en PubChem")
                         ELSE MensajeNombre("No se encontró '{}' en PubChem", elemento)]))
    ELSE IF ~resp.json_ok THEN Return(ExceptResult(cas, elemento, "JSONDecodeError"))
    ELSE IF \/ "IdentifierList" \notin DOMAIN resp.data
            \/ "CID" \notin DOMAIN resp.data.IdentifierList
            \/ resp.data.IdentifierList.CID = <<>> THEN
        Return(WithInput(cas, elemento,
            [encontrado |-> FALSE,
             error |-> "No se encontró un CID válido",
             mensaje |-> IF cas
                         THEN MensajeCas("PubChem no tiene registros para este número CAS")
                         ELSE MensajeNombre("PubChem no tiene registros para '{}'",
                                            elemento)]))
    ELSE GoOn(resp.data.IdentifierList.CID[1], EmptyDict)

\* step 2, from the answer of the property request on
OnProperties(cas, elemento, c, resp) ==
    IF resp.raises THEN Return(ExceptResult(cas, elemento, resp.exc))
    ELSE IF resp.status_code # 200 THEN
        Return(WithInput(cas, elemento,
            [encontrado |-> TRUE,
             cid |-> c,
             error |-> "Error obteniendo detalles: Código " \o ToString(resp.status_code),
             url |-> CompoundUrl(c)]))
    ELSE IF ~resp.json_ok THEN Return(ExceptResult(cas, elemento, "JSONDecodeError"))
    ELSE IF "PropertyTable" \notin DOMAIN resp.data THEN
        Return(ExceptResult(cas, elemento, "KeyError"))
    ELSE IF resp.data.PropertyTable.Properties = <<>> THEN
        Return(ExceptResult(cas, elemento, "IndexError"))
    ELSE GoOn(c, resp.data.PropertyTable.Properties[1])

\* synonyms[:10] if len(synonyms) > 10 else synonyms
Truncate_KeepAll(synonyms) == synonyms
Truncate(synonyms) ==
    IF Len(synonyms) > 10 THEN SubSeq(synonyms, 1, 10) ELSE synonyms

\* the synonyms a 200 answer with a JSON body yields
SynonymsOf(data) ==
    IF "InformationList" \in DOMAIN data /\ "Information" \in DOMAIN data.InformationList
    THEN Truncate(Get(data.InformationList.Information[1], "Synonym", <<>>))
    ELSE <<>>

Digits == {"0", "1", "2", "3", "4", "5", "6", "7", "8", "9"}
IsDigitAt(s, p) == p \in 1..Len(s) /\ s[p] \in Digits

\* \d{1,7}-\d{2}-\d{1} matches at p with k leading digits
CoreMatches(s, p, k) ==
    /\ \A x \in p..(p + k - 1) : IsDigitAt(s, x)
    /\ p + k + 4 <= Len(s)
    /\ s[p + k] = "-"
    /\ IsDigitAt(s, p + k + 1)
    /\ IsDigitAt(s, p + k + 2)
    /\ s[p + k + 3] = "-"
    /\ IsDigitAt(s, p + k + 4)

\* the digit counts \d{1,7} can take at p; the greedy match takes the largest
CoreLens(s, p) == {k \in 1..7 : CoreMatches(s, p, k)}
CoreGroup(s, p) == SubSeq(s, p, p + Max(CoreLens(s, p)) + 4)

\* (?:CAS[ -]+) matches at p with m separators and the core follows
PrefixLens(s, p) ==
    {m \in 1..Len(s) :
        /\ p + 2 + m <= Len(s)
        /\ s[p] = "C" /\ s[p + 1] = "A" /\ s[p + 2] = "S"
        /\ \A x \in (p + 3)..(p + 2 + m) : s[x] \in {" ", "-"}
        /\ CoreLens(s, p + 3 + m) # {}}

\* group(1) of a match of cas_pattern starting at p, or None
MatchAt(s, p) ==
    IF PrefixLens(s, p) # {} THEN CoreGroup(s, p + 3 + Max(PrefixLens(s, p)))
    ELSE IF CoreLens(s, p) # {} THEN CoreGroup(s, p)
    ELSE None

\* cas_pattern.search(syn): group(1) of the leftmost match, or None
cas_pattern_search(syn) ==
    LET hits == {p \in 1..Len(syn) : MatchAt(syn, p) # None}
    IN  IF hits = {} THEN None ELSE MatchAt(syn, Min(hits))

\* the loop over the synonyms: the first one that matches, then break
ExtractCas_Last(synonyms) ==
    LET hits == {k \in 1..Len(synonyms) : cas_pattern_search(synonyms[k]) # None}
    IN  IF hits = {} THEN None ELSE cas_pattern_search(synonyms[Max(hits)])
ExtractCas(synonyms) ==
    LET hits == {k \in 1..Len(synonyms) : cas_pattern_search(synonyms[k]) # None}
    IN  IF hits = {} THEN None ELSE cas_pattern_search(synonyms[Min(hits)])

\* the dict of a complete lookup
FullResult(cas, elemento, c, props, synonyms) ==
    LET base == [encontrado |-> TRUE,
                 cid |-> c,
                 nombre_iupac |-> Get(props, "IUPACName", "No disponible"),
                 formula |-> Get(props, "MolecularFormula", "No disponible"),
                 peso_molecular |-> Get(props, "MolecularWeight", "No disponible"),
                 inchikey |-> Get(props, "InChIKey", "No disponible"),
                 smiles |-> Get(props, "CanonicalSMILES", "No disponible"),
                 sinonimos |-> synonyms,
                 url |-> CompoundUrl(c)]
    IN  IF cas THEN base
        ELSE ("input" :> elemento) @@ ("cas_number" :> ExtractCas(synonyms)) @@ base

\* step 3, from the answer of the synonyms request on
OnSynonyms(cas, elemento, c, props, resp) ==
    IF resp.raises THEN Return(ExceptResult(cas, elemento, resp.exc))
    ELSE IF resp.status_code # 200 THEN
        Return(FullResult(cas, elemento, c, props, <<>>))
    ELSE IF ~resp.json_ok THEN Return(ExceptResult(cas, elemento, "JSONDecodeError"))
    ELSE IF /\ "InformationList" \in DOMAIN resp.data
            /\ "Information" \in DOMAIN resp.data.InformationList
            /\ resp.data.InformationList.Information = <<>> THEN
        Return(ExceptResult(cas, elemento, "IndexError"))
    ELSE Return(FullResult(cas, elemento, c, props, SynonymsOf(resp.data)))

\* "if i > 0: time.sleep(1)", with idx = i + 1
NeedsDelay_Every(k) == TRUE
NeedsDelay(k) == k > 1

\* elements a user may submit, already split and stripped
PubChemCas == {s_64_17_5, s_51_84_3}
PubChemNames == {s_Aqua, s_AQUA}
Batches(cas) ==
    {l \in Lists(IF cas THEN PubChemCas ELSE PubChemNames, MaxLista) : l # <<>>}

Event(ev, k, step) == [ev |-> ev, query |-> k, step |-> step]

\* a requests.get is sent: the service may answer it or stay silent
Send(others, step, k) ==
    \E s \in BOOLEAN :
        in_flight' = others \cup
            {[step |-> step, query |-> k, timeout |-> RequestTimeout(step), silent |-> s]}

\* the top of the loop body for position k: sleep first, or send the cids
\* request at once
Begin(k, others, tr) ==
    IF NeedsDelay(k)
    THEN /\ pc' = "sleep"
         /\ in_flight' = others
         /\ trace' = Append(tr, Event("sleep", k, "none"))
    ELSE /\ pc' = "cids"
         /\ Send(others, "cids", k)
         /\ trace' = Append(tr, Event("request", k, "cids"))

\* resultados[elemento] = resultado, then the next iteration or the return
Finish_AbortOnFailure(r, others, tr) ==
    /\ resultados_pubchem' = (input_list[idx] :> r) @@ resultados_pubchem
    /\ resultado_de' = Append(resultado_de, r)
    /\ idx' = idx + 1
    /\ cid' = 0
    /\ properties' = EmptyDict
    /\ IF idx + 1 > Len(input_list) \/ ~r.encontrado
       THEN pc' = "done" /\ in_flight' = others /\ trace' = tr
       ELSE Begin(idx + 1, others, tr)
Finish(r, others, tr) ==
    /\ resultados_pubchem' = (input_list[idx] :> r) @@ resultados_pubchem
    /\ resultado_de' = Append(resultado_de, r)
    /\ idx' = idx + 1
    /\ cid' = 0
    /\ properties' = EmptyDict
    /\ IF idx + 1 > Len(input_list)
       THEN pc' = "done" /\ in_flight' = others /\ trace' = tr
       ELSE Begin(idx + 1, others, tr)

\* the response just received, added to those of the current position
Received(resp) ==
    IF Len(respuestas) < idx THEN Append(respuestas, <<resp>>)
    ELSE [respuestas EXCEPT ![idx] = Append(@, resp)]

\* the button handler calls buscar_lista_en_pubchem(input_list, por_cas)
BuscarLista ==
    /\ pc = "idle"
    /\ \E cas \in BOOLEAN : \E l \in Batches(cas) :
        /\ input_list' = l
        /\ por_cas' = cas
    /\ idx' = 1
    /\ Begin(1, {}, <<>>)
    /\ UNCHANGED <<cid, properties, resultados_pubchem, respuestas, resultado_de>>
    /\ UNCHANGED <<app_vars, tracker_vars>>

\* time.sleep(1) returns and the lookup of the element sends its first request
Wake ==
    /\ pc = "sleep"
    /\ pc' = "cids"
    /\ Send(in_flight, "cids", idx)
    /\ trace' = trace \o <<Event("slept", idx, "none"), Event("request", idx, "cids")>>
    /\ UNCHANGED <<input_list, por_cas, idx, cid, properties, resultados_pubchem,
                   respuestas, resultado_de>>
    /\ UNCHANGED <<app_vars, tracker_vars>>

\* the cids request completes
RecvCids ==
    /\ pc = "cids"
    /\ \E c \in in_flight : \E resp \in Answers(c, CidsResponses) :
        LET out == OnCids(por_cas, input_list[idx], resp)
            tr == Append(trace, Event("response", idx, "cids"))
        IN  /\ c.step = "cids"
            /\ respuestas' = Received(resp)
            /\ IF out.done THEN Finish(out.resultado, in_flight \ {c}, tr)
               ELSE /\ cid' = out.cid
                    /\ pc' = "properties"
                    /\ Send(in_flight \ {c}, "properties", idx)
                    /\ trace' = Append(tr, Event("request", idx, "properties"))
                    /\ UNCHANGED <<idx, properties, resultados_pubchem, resultado_de>>
    /\ UNCHANGED <<input_list, por_cas>>
    /\ UNCHANGED <<app_vars, tracker_vars>>

\* the property request completes
RecvProperties ==
    /\ pc = "properties"
    /\ \E c \in in_flight : \E resp \in Answers(c, PropertiesResponses) :
        LET out == OnProperties(por_cas, input_list[idx], cid, resp)
            tr == Append(trace, Event("response", idx, "properties"))
        IN  /\ c.step = "properties"
            /\ respuestas' = Received(resp)
            /\ IF out.done THEN Finish(out.resultado, in_flight \ {c}, tr)
               ELSE /\ properties' = out.properties
                    /\ pc' = "synonyms"
                    /\ Send(in_flight \ {c}, "synonyms", idx)
                    /\ trace' = Append(tr, Event("request", idx, "synonyms"))
                    /\ UNCHANGED <<idx, cid, resultados_pubchem, resultado_de>>
    /\ UNCHANGED <<input_list, por_cas>>
    /\ UNCHANGED <<app_vars, tracker_vars>>

\* the synonyms request completes and the lookup returns
RecvSynonyms ==
    /\ pc = "synonyms"
    /\ \E c \in in_flight : \E resp \in Answers(c, SynonymsResponses) :
        LET out == OnSynonyms(por_cas, input_list[idx], cid, properties, resp)
            tr == Append(trace, Event("response", idx, "synonyms"))
        IN  /\ c.step = "synonyms"
            /\ respuestas' = Received(resp)
            /\ Finish(out.resultado, in_flight \ {c}, tr)
    /\ UNCHANGED <<input_list, por_cas>>
    /\ UNCHANGED <<app_vars, tracker_vars>>

\* the script is at the PubChem page: no table search is in progress
AppIdle ==
    /\ disk = [n \in FileNames |-> Unreadable]
    /\ nan_as_text = FALSE
    /\ annex_data = load_data(disk).annex_data
    /\ cas_db = load_data(disk).cas_db
    /\ info_carga = load_data(disk).info_carga
    /\ call = NoCall
    /\ ret = NoRet

InitPubChem == AppIdle /\ PubChemIdle /\ TrackerIdle

NextPubChem == BuscarLista \/ Wake \/ RecvCids \/ RecvProperties \/ RecvSynonyms

SpecPubChem == InitPubChem /\ [][NextPubChem]_vars

----------------------------------------------------------------------------
(* Vocabulary of the PubChem claims *)

\* the positions of the batch whose lookup has returned
ReturnedPositions == 1..Len(resultado_de)

\* the answer holds a non-empty identifier list
YieldsHandle(resp) ==
    /\ ~resp.raises
    /\ resp.status_code = 200
    /\ resp.json_ok
    /\ "IdentifierList" \in DOMAIN resp.data
    /\ "CID" \in DOMAIN resp.data.IdentifierList
    /\ resp.data.IdentifierList.CID # <<>>

\* the answer is an HTTP error, or a JSON body whose identifier list is
\* missing or empty
NoHandle(resp) ==
    /\ ~resp.raises
    /\ \/ resp.status_code # 200
       \/ resp.json_ok /\ ~YieldsHandle(resp)

\* the request raised, or its body is not JSON
Broken(resp) == resp.raises \/ (resp.status_code = 200 /\ ~resp.json_ok)

\* the request answered with an HTTP error
Non200(resp) == ~resp.raises /\ resp.status_code # 200

\* a JSON body of the property endpoint without a property record
NoPropertyRecord(resp) ==
    /\ ~resp.raises /\ resp.status_code = 200 /\ resp.json_ok
    /\ \/ "PropertyTable" \notin DOMAIN resp.data
       \/ resp.data.PropertyTable.Properties = <<>>

\* a JSON body of the synonyms endpoint whose information list is missing
\* or empty
NoInformation(resp) ==
    /\ ~resp.raises /\ resp.status_code = 200 /\ resp.json_ok
    /\ \/ "InformationList" \notin DOMAIN resp.data
       \/ resp.data.InformationList.Information = <<>>

PropertiesFailed(resp) == Broken(resp) \/ Non200(resp) \/ NoPropertyRecord(resp)
SynonymsFailed(resp) == Broken(resp) \/ Non200(resp) \/ NoInformation(resp)

PropertyKeys == {"nombre_iupac", "formula", "peso_molecular", "inchikey", "smiles"}

\* C11: once step 1 has returned a CID, a failure of the property or of the
\* synonyms request still yields encontrado = true with that CID and the
\* reference URL (and no properties when the property request failed).
C11_HandleNeverDiscarded ==
    \A k \in ReturnedPositions :
        LET rs == respuestas[k]
            r == resultado_de[k]
        IN  (/\ Len(rs) >= 2
             /\ YieldsHandle(rs[1])
             /\ \/ PropertiesFailed(rs[2])
                \/ Len(rs) = 3 /\ SynonymsFailed(rs[3]))
            => /\ r.encontrado
               /\ "cid" \in DOMAIN r
               /\ r.cid = rs[1].data.IdentifierList.CID[1]
               /\ "url" \in DOMAIN r
               /\ PropertiesFailed(rs[2]) => DOMAIN r \cap PropertyKeys = {}

\* the result names the query it answers
Carries(r, q) ==
    \/ "input" \in DOMAIN r /\ r.input = q
    \/ /\ "mensaje" \in DOMAIN r
       /\ "arg" \in DOMAIN r.mensaje
       /\ r.mensaje.arg = q

\* C12: when step 1 yields no handle (non-200, missing or empty identifier
\* list) the result is not-found, carries the original query string and a
\* reason, for CAS lookups as well as name lookups.
C12_NotFoundCarriesQuery ==
    \A k \in ReturnedPositions :
        LET r == resultado_de[k]
        IN  NoHandle(respuestas[k][1])
            => /\ ~r.encontrado
               /\ Carries(r, input_list[k])
               /\ "error" \in DOMAIN r
               /\ "mensaje" \in DOMAIN r

\* the positions of trace holding an event of kind ev
EventsOf(ev) == {a \in 1..Len(trace) : trace[a].ev = ev}

\* the position the loop is at: the length of the batch once it returned
LoopPosition == IF pc = "done" THEN Len(input_list) ELSE idx

\* C13: a batch is resolved one element at a time in input order, with at
\* most one request in flight and none during a delay; there is a delay
\* before every element except the first, it ends before the first request
\* of that element, and a batch of N elements sleeps exactly N - 1 times.
C13_SerialWithDelays ==
    /\ Cardinality(in_flight) <= 1
    /\ \A c \in in_flight : c.query = idx
    /\ pc = "sleep" => in_flight = {}
    /\ \A a, b \in 1..Len(trace) : a < b => trace[a].query <= trace[b].query
    /\ \A a \in EventsOf("sleep") :
          /\ trace[a].query > 1
          /\ a > 1
          /\ trace[a - 1] = Event("response", trace[a].query - 1, trace[a - 1].step)
          /\ a < Len(trace) => trace[a + 1] = Event("slept", trace[a].query, "none")
    /\ \A b \in EventsOf("request") :
          (trace[b].step = "cids" /\ trace[b].query > 1)
              => (b > 1 /\ trace[b - 1] = Event("slept", trace[b].query, "none"))
    /\ pc # "idle" => Cardinality(EventsOf("sleep")) = LoopPosition - 1
    /\ pc = "done" => Cardinality(EventsOf("slept")) = Len(input_list) - 1

\* a batch of two elements has returned after three requests for each
C13_Witness ==
    /\ pc = "done"
    /\ Len(input_list) = 2
    /\ Len(respuestas[1]) = 3
    /\ Len(respuestas[2]) = 3
    /\ Cardinality(EventsOf("slept")) = 1
    /\ Cardinality(EventsOf("request")) = 6

\* some request of the lookup failed: exception, HTTP error, or a payload
\* that is not JSON or lacks the expected list
AnyFailure(rs) ==
    \/ Broken(rs[1]) \/ NoHandle(rs[1])
    \/ Len(rs) >= 2 /\ PropertiesFailed(rs[2])
    \/ Len(rs) = 3 /\ SynonymsFailed(rs[3])

\* the batch has returned a mapping with a result for every element
MappingComplete ==
    /\ Len(resultado_de) = Len(input_list)
    /\ DOMAIN resultados_pubchem = Range(input_list)
    /\ \A e \in Range(input_list) :
          resultados_pubchem[e] =
              resultado_de[Max({k \in 1..Len(input_list) : input_list[k] = e})]

EndsNotFound(rs) ==
    \/ Broken(rs[1]) \/ NoHandle(rs[1])
    \/ Len(rs) >= 2 /\ (Broken(rs[2]) \/ NoPropertyRecord(rs[2]))
    \/ /\ Len(rs) = 3
       /\ \/ Broken(rs[3])
          \/ /\ NoInformation(rs[3])
             /\ "InformationList" \in DOMAIN rs[3].data

C15_EveryCallTimesOut ==
    \A c \in in_flight :
        /\ c.timeout # NoTimeout
        /\ c.silent => Answers(c, {}) # {}

\* t is 1 to 7 digits, a hyphen, 2 digits, a hyphen, 1 digit
IsCasShaped(t) ==
    \E k \in 1..7 :
        /\ Len(t) = k + 5
        /\ \A x \in (1..k) \cup {k + 2, k + 3, k + 5} : t[x] \in Digits
        /\ t[k + 1] = "-"
        /\ t[k + 4] = "-"

\* the CAS-shaped tokens a text contains
CasTokens(s) ==
    {t \in {SubSeq(s, a, b) : a, b \in 1..Len(s)} : IsCasShaped(t)}

\* C16: a name lookup that obtained its synonyms takes the CAS from the
\* first retained synonym containing a CAS-shaped token and ignores the
\* later ones; without such a synonym the CAS is absent and the result is
\* still found; "CAS-64-17-5" gives "64-17-5".
C16_FirstCasSynonymWins ==
    \A k \in ReturnedPositions :
        LET r == resultado_de[k]
        IN  (~por_cas /\ "sinonimos" \in DOMAIN r)
            => LET syn == r.sinonimos
                   matching == {m \in 1..Len(syn) : CasTokens(syn[m]) # {}}
               IN  /\ r.encontrado
                   /\ "cas_number" \in DOMAIN r
                   /\ matching = {} => r.cas_number = None
                   /\ matching # {} =>
                         /\ r.cas_number \in CasTokens(syn[Min(matching)])
                         /\ syn[Min(matching)] = syn_CAS_64_17_5
                               => r.cas_number = s_64_17_5

\* a name was resolved with "CAS-64-17-5" as second synonym and another CAS
\* after it
C16_Witness ==
    /\ ~por_cas
    /\ \E k \in ReturnedPositions :
          LET r == resultado_de[k]
          IN  /\ "sinonimos" \in DOMAIN r
              /\ r.sinonimos = <<syn_ethanol, syn_CAS_64_17_5, syn_50_00_0>>
              /\ r.cas_number = s_64_17_5

\* the Synonym list of a synonyms answer, empty when it has none
ListedSynonyms(resp) ==
    IF /\ ~resp.raises /\ resp.status_code = 200 /\ resp.json_ok
       /\ "InformationList" \in DOMAIN resp.data
       /\ resp.data.InformationList.Information # <<>>
       /\ "Synonym" \in DOMAIN resp.data.InformationList.Information[1]
    THEN resp.data.InformationList.Information[1].Synonym
    ELSE <<>>

\* C17: a result holds at most 10 synonyms: those the service listed, or
\* the first 10 of them in order when it listed more.
C17_AtMostTenSynonyms ==
    \A k \in ReturnedPositions :
        LET r == resultado_de[k]
        IN  "sinonimos" \in DOMAIN r
            => LET listed == ListedSynonyms(respuestas[k][3])
               IN  /\ Len(r.sinonimos) <= 10
                   /\ r.sinonimos =
                         [m \in 1..(IF Len(listed) > 10 THEN 10 ELSE Len(listed))
                             |-> listed[m]]

\* the service listed 12 synonyms and the result holds 10
C17_Witness ==
    \E k \in ReturnedPositions :
        /\ "sinonimos" \in DOMAIN resultado_de[k]
        /\ Len(ListedSynonyms(respuestas[k][3])) = 12
        /\ Len(resultado_de[k].sinonimos) = 10

----------------------------------------------------------------------------
(* The freshness check of the annexes: scripts/check_annexes.py *)

ANNEX_PAGES == <<"II", "III", "IV", "V", "VI">>
OUTPUT_DIR == "RESTRICCIONES"

\* None as json.dump writes it and dict.get returns it
null == "null"

\* load_state(): {} without file and on JSONDecodeError, else what
\* json.load returns
load_state(file) ==
    IF file.exists /\ file.json THEN file.object ELSE EmptyDict

\* load_state() catches json.JSONDecodeError only: the OSError of open() and
\* the UnicodeDecodeError of read() leave it
LoadRaises(file) == file.exists /\ (~file.opens \/ ~file.utf8)

\* save_state(state): the file is rewritten with the whole mapping
save_state_FirstKey(mapping) ==
    JsonFile([a \in DOMAIN mapping \cap {"II"} |-> mapping[a]])
save_state(mapping) == JsonFile(mapping)

\* open(STATE_FILE, "w") has emptied the file and json.dump did not finish
Truncated == CorruptFile

\* state.get(annex)
StateGet(mapping, annex) ==
    IF annex \in DOMAIN mapping THEN mapping[annex] ELSE null

\* text that DATE_PATTERNS read as DD/MM/YYYY
DateTokens == {"12/01/2024", "05/03/2024", "30/11/2009"}

\* the cells the scan visits (first 15 rows, first 5 columns, row by row):
\* a text cell as its words, a date cell as its strftime('%d/%m/%Y')
TextCell(words) == [kind |-> "str", words |-> words, stamp |-> ""]
DateCell(stamp) == [kind |-> "timestamp", words |-> <<>>, stamp |-> stamp]

NoDate == ""

\* the first pattern of DATE_PATTERNS that finds something in a text cell
\* decides: "Last update:\s*(date)" first, then a bare date, leftmost match
\* (the last two patterns contain a bare date and never get their turn)
PatternDate(words) ==
    LET labeled == {p \in 1..(Len(words) - 1) :
                       words[p] = "Last update:" /\ words[p + 1] \in DateTokens}
        bare == {p \in 1..Len(words) : words[p] \in DateTokens}
    IN  IF labeled # {} THEN words[Min(labeled) + 1]
        ELSE IF bare # {} THEN words[Min(bare)]
        ELSE NoDate

\* extract_date_from_excel: None when the workbook cannot be read; else the
\* date of the first text cell holding one; else the first date cell; else
\* None
extract_date_from_excel(file) ==
    IF ~file.readable THEN NoDate
    ELSE LET texts == {p \in 1..Len(file.cells) :
                          /\ file.cells[p].kind = "str"
                          /\ PatternDate(file.cells[p].words) # NoDate}
             stamps == {p \in 1..Len(file.cells) : file.cells[p].kind = "timestamp"}
         IN  IF texts # {} THEN PatternDate(file.cells[Min(texts)].words)
             ELSE IF stamps # {} THEN file.cells[Min(stamps)].stamp
             ELSE NoDate

\* what the download of one annex ends with: None after every endpoint
\* failed, timed out or served something that is not Excel, or a workbook
\* saved as temp_annex_<annex>.<ext>
Unfetchable ==
    [fetched |-> FALSE, ext |-> "", readable |-> FALSE, cells |-> <<>>,
     content |-> "", last_modified |-> ""]
Workbook(ext, readable, cells, content, lm) ==
    [fetched |-> TRUE, ext |-> ext, readable |-> readable, cells |-> cells,
     content |-> content, last_modified |-> lm]

Dated1 ==
    Workbook("xlsx", TRUE, <<TextCell(<<"COSING">>),
                             TextCell(<<"Last update:", "12/01/2024">>)>>,
             "sha-1", "Mon, 15 Jan 2024")
Dated2 ==
    Workbook("xlsx", TRUE, <<TextCell(<<"Regulation", "30/11/2009", "Last update:",
                                        "05/03/2024">>)>>,
             "sha-2", "")
Stamped1 ==
    Workbook("xls", TRUE, <<TextCell(<<"COSING">>), DateCell("12/01/2024")>>,
             "sha-3", "")
Undated1 ==
    Workbook("xlsx", TRUE, <<TextCell(<<"COSING", "Annex">>)>>,
             "sha-4", "Tue, 02 Apr 2024")
Undated2 ==
    Workbook("xlsx", FALSE, <<>>, "sha-5", "")

\* what the site may serve for Annex II, for Annex III, and for the others
RemoteII == {Unfetchable, Dated1, Dated2, Stamped1, Undated1, Undated2}
RemoteIII == {Unfetchable, Dated2, Undated1}
RemoteRest == {Unfetchable, Dated1}
Remotes ==
    {[a \in {ANNEX_PAGES[k] : k \in 1..Len(ANNEX_PAGES)} |->
        IF a = "II" THEN x ELSE IF a = "III" THEN y ELSE z] :
     x \in RemoteII, y \in RemoteIII, z \in RemoteRest}

TempName(annex, ext) == "temp_annex_" \o annex \o "." \o ext
DestName(annex, ext) == OUTPUT_DIR \o "/COSING_Annex_" \o annex \o "_v2." \o ext

\* "if state.get(annex) != date"
Changed_Always(mapping, annex, date) == TRUE
Changed(mapping, annex, date) == StateGet(mapping, annex) # date

\* os.remove(downloaded_file)
Cleanup_Keep(files, name) == files
Cleanup(files, name) == files \ {name}

\* "new_state[annex] = state.get(annex)"
KeepMarker_Drop(st, ns, annex) == ns
KeepMarker(st, ns, annex) == (annex :> StateGet(st, annex)) @@ ns

\* an exception leaves the loop body
Raised(ns, tc, wd, out) ==
    [raised |-> TRUE, new_state |-> ns, to_commit |-> tc, workdir |-> wd,
     copied |-> out]
Done(ns, tc, wd, out) ==
    [raised |-> FALSE, new_state |-> ns, to_commit |-> tc, workdir |-> wd,
     copied |-> out]

\* one iteration of the loop of main for the annex, the conversion of an
\* .xls succeeding or not, shutil.copy2 succeeding or raising: the new
\* values of new_state, to_commit, the working directory and the output
\* directory.  state.get raises AttributeError when state is not a dict.
ProcessOne(annex, file, convert_ok, copy_ok, st, ns, tc, wd, out) ==
    IF ~file.fetched THEN
        IF ~IsDict(st) THEN Raised(ns, tc, wd, out)
        ELSE Done(KeepMarker(st, ns, annex), tc, wd, out)
    ELSE
        LET temp == TempName(annex, file.ext)
            date == extract_date_from_excel(file)
            dest == IF file.ext = "xls" /\ ~convert_ok
                    THEN DestName(annex, "xls") ELSE DestName(annex, "xlsx")
            copy == [content |-> file.content,
                     converted |-> file.ext = "xls" /\ convert_ok]
            copies == ~(file.ext = "xls" /\ convert_ok)
        IN  IF date = NoDate THEN
                IF ~IsDict(st) THEN Raised(ns, tc, wd \cup {temp}, out)
                ELSE Done(KeepMarker(st, ns, annex), tc, wd \cup {temp}, out)
            ELSE IF ~IsDict(st) THEN
                Raised((annex :> date) @@ ns, tc, wd \cup {temp}, out)
            ELSE IF Changed(st, annex, date) THEN
                IF copies /\ ~copy_ok THEN
                    Raised((annex :> date) @@ ns, tc, wd \cup {temp}, out)
                ELSE
                    Done((annex :> date) @@ ns, Append(tc, dest),
                         Cleanup(wd \cup {temp}, temp), (dest :> copy) @@ out)
            ELSE
                Done((annex :> date) @@ ns, tc, Cleanup(wd \cup {temp}, temp), out)

\* commit_and_push(files, message): nothing without GITHUB_TOKEN, else every
\* file is sent to the repository, unless the GitHub API raises
commit_and_push(files, token, fails) ==
    [called |-> TRUE, token |-> token, raised |-> token /\ fails,
     files |-> IF token /\ ~fails THEN files ELSE <<>>]

\* main() starts: load_state(), empty new_state and to_commit; the site
\* serves what it serves during this cycle.  An exception of load_state
\* ends the run.
StartCycle ==
    /\ tpc \in {"idle", "ended", "crashed"}
    /\ log' = <<"load">>
    /\ new_state' = EmptyDict
    /\ to_commit' = <<>>
    /\ copied' = EmptyDict
    /\ push' = NoPush
    /\ IF LoadRaises(state_file)
       THEN /\ state' = EmptyDict
            /\ remote' = EmptyDict
            /\ annex_k' = 0
            /\ tpc' = "crashed"
            /\ unpublished' = EmptyDict
       ELSE /\ state' = load_state(state_file)
            /\ remote' \in Remotes
            /\ annex_k' = 1
            /\ tpc' = "loop"
            /\ UNCHANGED unpublished
    /\ UNCHANGED <<state_file, workdir>>
    /\ UNCHANGED <<app_vars, pubchem_vars>>

\* the loop body for the next annex: download, extract the date, compare,
\* copy, remove the temporary file
ProcessAnnex ==
    /\ tpc = "loop"
    /\ \E convert_ok \in BOOLEAN, copy_ok \in BOOLEAN :
        LET annex == ANNEX_PAGES[annex_k]
            r == ProcessOne(annex, remote[annex], convert_ok, copy_ok, state,
                            new_state, to_commit, workdir, copied)
        IN  /\ new_state' = r.new_state
            /\ to_commit' = r.to_commit
            /\ workdir' = r.workdir
            /\ copied' = r.copied
            /\ log' = Append(log, annex)
            /\ IF r.raised
               THEN /\ tpc' = "crashed"
                    /\ unpublished' = EmptyDict
                    /\ UNCHANGED annex_k
               ELSE /\ tpc' = IF annex_k = Len(ANNEX_PAGES) THEN "save" ELSE "loop"
                    /\ annex_k' = annex_k + 1
                    /\ UNCHANGED unpublished
    /\ UNCHANGED <<state_file, state, remote, push>>
    /\ UNCHANGED <<app_vars, pubchem_vars>>

\* save_state(new_state); without files to publish main ends here.  A write
\* that does not finish (OSError) ends the run with a truncated file.
SaveState ==
    /\ tpc = "save"
    /\ log' = Append(log, "save")
    /\ \E write_ok \in BOOLEAN :
        IF write_ok
        THEN /\ state_file' = save_state(new_state)
             /\ tpc' = IF to_commit # <<>> THEN "publish" ELSE "ended"
             /\ unpublished' = IF to_commit # <<>> THEN unpublished ELSE EmptyDict
        ELSE /\ state_file' = Truncated
             /\ tpc' = "crashed"
             /\ unpublished' = EmptyDict
    /\ UNCHANGED <<state, new_state, to_commit, workdir, copied, remote, annex_k, push>>
    /\ UNCHANGED <<app_vars, pubchem_vars>>

\* the sources whose file is in the list, with the marker found for them
QueuedMarkers(files, ns) ==
    [a \in {x \in DOMAIN ns :
               {DestName(x, "xlsx"), DestName(x, "xls")} \cap Range(files) # {}}
        |-> ns[a]]

\* commit_and_push(to_commit, ...), then main ends
Publish ==
    /\ tpc = "publish"
    /\ log' = Append(log, "push")
    /\ \E token \in BOOLEAN, fails \in BOOLEAN :
        /\ push' = commit_and_push(to_commit, token, fails)
        /\ unpublished' = IF token /\ ~fails THEN EmptyDict
                          ELSE QueuedMarkers(to_commit, new_state)
    /\ tpc' = "ended"
    /\ UNCHANGED <<state_file, state, new_state, to_commit, workdir, copied, remote,
                   annex_k>>
    /\ UNCHANGED <<app_vars, pubchem_vars>>

\* state files a first run may find
FirstStateFiles ==
    {NoFile, LockedFile, BinaryFile, CorruptFile, JsonFile(JsonArray(<<>>))}

InitTracker ==
    /\ AppIdle
    /\ PubChemIdle
    /\ \E file \in FirstStateFiles : TrackerAt(file)

NextTracker == StartCycle \/ ProcessAnnex \/ SaveState \/ Publish

SpecTracker == InitTracker /\ [][NextTracker]_vars

----------------------------------------------------------------------------
(* Vocabulary of the freshness claims *)

\* the loop is over and save_state has run
Saved == tpc \in {"publish", "ended"}

Annexes == {ANNEX_PAGES[k] : k \in 1..Len(ANNEX_PAGES)}

\* the marker this cycle extracted for the source, NoDate without one
Extracted(a) ==
    IF remote[a].fetched THEN extract_date_from_excel(remote[a]) ELSE NoDate

\* the marker the cycle found persisted for the source, null without one
Persisted(a) == StateGet(state, a)

\* the source is in the list of files to publish
DestsOf(a) == {DestName(a, "xlsx"), DestName(a, "xls")}
Listed(a) == DestsOf(a) \cap Range(to_commit) # {}

\* C18: a source whose extracted marker differs from its persisted marker,
\* or has no persisted marker, is marked changed: the fetched file is in the
\* list of files to publish and the persisted marker becomes the new one;
\* no source is in that list otherwise.
C18_ChangedIffMarkerDiffers ==
    Saved =>
        /\ \A a \in Annexes :
              /\ Extracted(a) # NoDate =>
                    /\ Listed(a) <=> Persisted(a) # Extracted(a)
                    /\ Listed(a) =>
                          \E d \in DestsOf(a) \cap Range(to_commit) :
                              /\ d \in DOMAIN copied
                              /\ copied[d].content = remote[a].content
                    /\ state_file.object[a] = Extracted(a)
              /\ Extracted(a) = NoDate => ~Listed(a)
        /\ Len(to_commit) = Cardinality({a \in Annexes : Listed(a)})
        /\ Range(to_commit) \subseteq UNION {DestsOf(a) : a \in Annexes}

\* in one cycle a source with a persisted marker got a different one and a
\* source without persisted marker got its first one
C18_Witness ==
    /\ Saved
    /\ \E a, b \in Annexes :
          /\ Persisted(a) # null
          /\ Extracted(a) \notin {NoDate, Persisted(a)}
          /\ Listed(a)
          /\ state_file.object[a] = Extracted(a)
          /\ Persisted(b) = null
          /\ Extracted(b) # NoDate
          /\ Listed(b)

FallbackMarker(file) ==
    IF file.last_modified # "" THEN file.last_modified ELSE file.content

\* C20: a fetched artifact without extractable date still gets a marker
\* (Last-Modified, else content hash), which is persisted, and the source is
\* published when that marker differs from the persisted one.
C20_UndatedArtifactGetsMarker ==
    Saved =>
        \A a \in Annexes :
            (remote[a].fetched /\ Extracted(a) = NoDate)
            => /\ state_file.object[a] = FallbackMarker(remote[a])
               /\ Persisted(a) # FallbackMarker(remote[a]) => Listed(a)

\* the source could not be fetched in this cycle, or what was fetched
\* cannot be read as a workbook
FetchOrParseFailed(a) == ~remote[a].fetched \/ ~remote[a].readable

\* the marker the state file holds for the source, null without one
MarkerOnFile(a) == StateGet(state_file.object, a)

\* C21: a source that cannot be fetched or parsed in a cycle keeps its
\* marker: after the cycle the state file holds for it what the cycle found
\* persisted (nothing, when there was nothing), the source is not in the
\* list of files to publish and nothing was copied for it.
C21_FailedSourceKeepsMarker ==
    Saved =>
        \A a \in Annexes :
            FetchOrParseFailed(a)
            => /\ MarkerOnFile(a) = Persisted(a)
               /\ ~Listed(a)
               /\ DestsOf(a) \cap DOMAIN copied = {}

\* a cycle got an unreadable workbook for a source that had a marker and
\* no file at all for a source that had none
C21_Witness ==
    /\ Saved
    /\ \E a, b \in Annexes :
          /\ remote[a].fetched
          /\ ~remote[a].readable
          /\ Persisted(a) # null
          /\ MarkerOnFile(a) = Persisted(a)
          /\ ~remote[b].fetched
          /\ Persisted(b) = null
          /\ MarkerOnFile(b) = null
          /\ ~Listed(b)

\* what the log of a cycle that runs to its end holds
FullLog ==
    <<"load">> \o ANNEX_PAGES \o <<"save", "push">>

HoldsMapping(file) == file.exists /\ file.opens /\ file.utf8 /\ file.json /\ IsDict(file.object)

\* the run was ended by load_state, or by state.get on what it returned
EndedByStateFile ==
    /\ tpc = "crashed"
    /\ log = <<"load">> \/ ~IsDict(state)

\* C23: a state file that cannot be read, is not UTF-8, is not JSON or does
\* not hold a mapping counts as no prior state: neither load_state nor the
\* cycle fails because of it, and the cycle works with an empty state.
C23_BadStateFileIsNoState ==
    /\ ~EndedByStateFile
    /\ (tpc = "loop" /\ ~HoldsMapping(state_file)) => state = EmptyDict

\* C29: a source the last finished cycle found changed and did not publish
\* (no token, or commit_and_push raised) is found changed again by the next
\* cycle that fetches the same marker for it: its file is in the list of
\* files to publish of that cycle.
C29_UnpublishedChangeComesBack ==
    tpc \in {"save", "publish"} =>
        \A a \in DOMAIN unpublished :
            Extracted(a) = unpublished[a] => Listed(a)

----------------------------------------------------------------------------
(* Claims about load_data and the frame of the searches *)

\* the table the script holds for a source after load_data
Loaded(n) == IF n = "Base CAS" THEN cas_db ELSE annex_data[n]

\* C24: a source file that cannot be parsed becomes an empty table and its
\* failure is recorded, and every other source that can be read is loaded
\* with its own rows.
C24_UnreadableSourceContained ==
    \A n \in FileNames :
        ~disk[n].readable
        => /\ Loaded(n) = EmptyDF
           /\ ~info_carga[n].ok
           /\ \A m \in FileNames \ {n} :
                 disk[m].readable => Loaded(m).rows = disk[m].table.rows

s_unnamed == <<"u","n","n","a","m","e","d">>

\* the label is a placeholder: it holds "unnamed", in any case
IsPlaceholder(label) == Contains(Lower(label), s_unnamed)

\* the header the Table Normalizer gives: every label trimmed, a placeholder
\* replaced by the cell of the fallback row in its column when that cell is
\* not empty
NormalizedHeader(header, fallback) ==
    [j \in 1..Len(header) |->
        IF /\ IsPlaceholder(header[j])
           /\ j <= Len(fallback)
           /\ Strip(fallback[j]) # <<>>
        THEN Strip(fallback[j])
        ELSE Strip(header[j])]

\* C25: the header of a loaded table has the columns of the file in their
\* order, every label trimmed and every placeholder label replaced by the
\* non-empty cell above it: ["Unnamed: 0", "CAS Number"] under
\* ["Substance Name", "CAS Number"] becomes ["Substance Name", "CAS Number"].
\* Stated for the two sources load_data binds directly to what it read.
C25_PlaceholderHeadersReplaced ==
    \A n \in {"Annex II", "MERCOSUR Prohibidas"} :
        disk[n].readable
        => /\ Len(Loaded(n).columns) = Len(disk[n].table.columns)
           /\ Loaded(n).columns =
                 NormalizedHeader(disk[n].table.columns, disk[n].above)

\* C26: for Annex III, IV, V and VI, a file that load_data read gives the
\* table of that name in annex_data its rows and trimmed header; the table
\* of a file that was read and has rows is never empty.
C26_LoopAnnexesAreLoaded ==
    \A n \in LoopAnnexes :
        disk[n].readable
        => /\ annex_data[n] = StripColumns(disk[n].table)
           /\ ~IsEmptyDF(disk[n].table) => ~IsEmptyDF(annex_data[n])

\* C27: a cross-annex search returns a mapping whose keys are exactly the
\* distinct strings of the input list, a string found nowhere having
\* encontrado = false and no source.
C27_OneEntryPerDistinctCas ==
    call.fn = "cas" =>
        /\ ~ret.raised
        /\ DOMAIN ret.resultados = Range(call.lista)
        /\ \A c \in DOMAIN ret.resultados :
              ~ret.resultados[c].encontrado => ret.resultados[c].anexos = <<>>

\* what the general search over all annexes gives for one string
GeneralSearch(cas_number) ==
    LET r == ScanAnnexes(cas_number, 1)
    IN  [encontrado |-> r.encontrado, anexos |-> r.anexos]

\* C28: for "51-84-3" the result of the search (found flag, source names,
\* matched rows) is the one the general search over all annexes gives for
\* that string on the same tables.
C28_SpecialCaseAgreesWithGeneral ==
    (CasCallReturned /\ s_51_84_3 \in DOMAIN ret.resultados) =>
        ret.resultados[s_51_84_3] = GeneralSearch(s_51_84_3)

====
